---- MODULE Spec2Model ----
(***************************************************************************)
(* Model of the two services of the repository:                            *)
(*  - the patients CRUD API (Django_guide/patients/views.py): the views    *)
(*    ListPatientsView and DetailPatientView over the Patient table;       *)
(*  - the demo service (main.py): read_root, read_item, create_item.       *)
(* Spec     : the patients API serving one request at a time.              *)
(* SpecConc : two requests on one patient id, interleaved step by step.    *)
(* SpecDemo : the demo service.                                            *)
(***************************************************************************)
EXTENDS Integers, Sequences, FiniteSets, TLC

VARIABLES
    store,      \* the Patient table: a set of rows [id, fields]
    nextId,     \* the table's auto-increment sequence: the next id it hands out
    req,        \* the request served last
    resp,       \* the response to it
    before,     \* history: [store, nextId] as they were when req arrived
    created,    \* history: the ids returned by a 201 response
    deleted,    \* history: the ids whose DELETE responded 204
    submitted,  \* history: id -> the fields submitted at creation, kept while
                \*          no update or delete of that id was served
    proc,       \* SpecConc: each worker's request, position and response
    demoReq,    \* SpecDemo: the request served last
    demoResp,   \* SpecDemo: the response to it
    demoServed  \* SpecDemo: how many requests were served before

vars == <<store, nextId, req, resp, before, created, deleted, submitted,
          proc, demoReq, demoResp, demoServed>>

patientVars == <<store, nextId, req, resp, before, created, deleted, submitted>>
demoVars == <<demoReq, demoResp, demoServed>>

(***************************************************************************)
(* Bounds                                                                  *)
(***************************************************************************)
\* Successful creates in a run: ids range over 1..MaxCreates.
MaxCreates == 2
\* Requests the demo service's history counts.
MaxServed == 2

\* The values a string field takes in the payloads tried.
Vals == {"a", "b"}
\* The fields the payloads tried leave out.
ProbeFields == {"email", "first_name"}
\* The field the payloads tried leave blank, or carry alone.
PatchFields == {"email"}
\* The id a client puts in a body.
ClientIds == {2}

(***************************************************************************)
(* Patient: the fields, the serializer, the table                          *)
(***************************************************************************)
Fields == {"first_name", "last_name", "date_of_birth", "contact_number",
           "email", "address", "medical_history"}

RequiredFields == Fields

NoPayload == [k \in {} |-> ""]

\* serializer.is_valid: the fields in error. A full update or a create needs
\* every required field; a partial update needs none. A blank string is
\* rejected wherever it is given.
Errors(body, partial) ==
    {f \in RequiredFields : ~partial /\ f \notin DOMAIN body}
        \cup {f \in Fields \cap DOMAIN body : body[f] = ""}

\* serializer.validated_data: the declared fields of the body; the id and any
\* other key are dropped.
from_wire(body) == [f \in Fields \cap DOMAIN body |-> body[f]]

\* serializer.data of a row: every declared field, and the id.
to_wire(row) ==
    [k \in Fields \cup {"id"} |-> IF k = "id" THEN row.id ELSE row.fields[k]]

Row(id, fields) == [id |-> id, fields |-> fields]

Ids(st) == {r.id : r \in st}

\* Patient.objects.get(pk=id), where a row has that id.
GetRow(st, id) == CHOOSE r \in st : r.id = id

\* serializer.update: each validated field is set on the instance.
Assign(fields, data) ==
    [f \in Fields |-> IF f \in DOMAIN data THEN data[f] ELSE fields[f]]

Response(status, data, items, errors) ==
    [status |-> status, data |-> data, items |-> items, errors |-> errors]

Outcome(st, nid, r) == [store |-> st, nextId |-> nid, resp |-> r]

(***************************************************************************)
(* Routing and dispatch                                                    *)
(***************************************************************************)
Methods == {"GET", "POST", "PUT", "PATCH", "DELETE"}

\* The handler methods each view class has: dispatch looks the request's
\* method up on the view, and the generic base classes define them.
\*   ListPatientsView(ListAPIView, CreateAPIView)
\*   DetailPatientView(RetrieveAPIView, UpdateAPIView, DestroyAPIView)
\* UpdateAPIView defines put and patch.
HandlerMethods(path) ==
    IF path = "collection" THEN {"GET", "POST"}
    ELSE {"GET", "PUT", "PATCH", "DELETE"}

\* The allowed_methods attribute each view class sets.
allowed_methods(path) ==
    IF path = "collection" THEN {"GET", "POST"} ELSE {"GET", "PUT", "DELETE"}

(***************************************************************************)
(* The handlers, as functions of the table and the request                 *)
(***************************************************************************)
RECURSIVE ItemsOf(_)
\* The rows as a sequence, in the order of their ids.
ItemsOf(st) ==
    IF st = {} THEN <<>>
    ELSE LET r == CHOOSE x \in st : \A y \in st : x.id <= y.id
         IN  <<to_wire(r)>> \o ItemsOf(st \ {r})

\* Variant: the queryset is evaluated once, when the class is defined, and the
\* list is served from that result.
ListPatientsView_get_cached(st, nid) ==
    Outcome(st, nid, Response(200, NoPayload, <<>>, {}))

\* GET /patients/
ListPatientsView_get(st, nid) ==
    Outcome(st, nid, Response(200, NoPayload, ItemsOf(st), {}))

\* Variant: validation stops at the first field in error.
ListPatientsView_post_first_error(st, nid, body) ==
    LET errs == Errors(body, FALSE)
        row  == Row(nid, from_wire(body))
    IN  IF errs # {}
        THEN Outcome(st, nid, Response(400, NoPayload, <<>>,
                                       {CHOOSE f \in errs : TRUE}))
        ELSE Outcome(st \cup {row}, nid + 1, Response(201, to_wire(row), <<>>, {}))

\* Variant: the id is a writable field, taken from the body when given.
ListPatientsView_post_client_id(st, nid, body) ==
    LET errs == Errors(body, FALSE)
        row  == Row(IF "id" \in DOMAIN body THEN body["id"] ELSE nid, from_wire(body))
    IN  IF errs # {}
        THEN Outcome(st, nid, Response(400, NoPayload, <<>>, errs))
        ELSE Outcome(st \cup {row}, nid + 1, Response(201, to_wire(row), <<>>, {}))

\* POST /patients/
ListPatientsView_post(st, nid, body) ==
    LET errs == Errors(body, FALSE)
        row  == Row(nid, from_wire(body))
    IN  IF errs # {}
        THEN Outcome(st, nid, Response(400, NoPayload, <<>>, errs))
        ELSE Outcome(st \cup {row}, nid + 1, Response(201, to_wire(row), <<>>, {}))

NotFound(st, nid) == Outcome(st, nid, Response(404, NoPayload, <<>>, {}))

\* Variant: the lookup ignores the id and takes the first row.
DetailPatientView_get_first(st, nid, id) ==
    IF id \notin Ids(st) THEN NotFound(st, nid)
    ELSE Outcome(st, nid,
                 Response(200, to_wire(CHOOSE r \in st : \A y \in st : r.id <= y.id),
                          <<>>, {}))

\* GET /patients/{id}/
DetailPatientView_get(st, nid, id) ==
    IF id \notin Ids(st) THEN NotFound(st, nid)
    ELSE Outcome(st, nid, Response(200, to_wire(GetRow(st, id)), <<>>, {}))

\* Variant: the body is validated before the row is looked up.
update_validate_first(st, nid, id, body, partial) ==
    LET errs == Errors(body, partial)
    IN  IF errs # {} THEN Outcome(st, nid, Response(400, NoPayload, <<>>, errs))
        ELSE IF id \notin Ids(st) THEN NotFound(st, nid)
        ELSE LET old == GetRow(st, id)
                 new == Row(old.id, Assign(old.fields, from_wire(body)))
             IN  Outcome((st \ {old}) \cup {new}, nid,
                         Response(200, to_wire(new), <<>>, {}))

\* UpdateModelMixin.update, which put (partial = FALSE) and patch
\* (partial = TRUE) call: the row is looked up, then the body validated, then
\* the row saved.
update(st, nid, id, body, partial) ==
    IF id \notin Ids(st) THEN NotFound(st, nid)
    ELSE LET old  == GetRow(st, id)
             errs == Errors(body, partial)
             new  == Row(old.id, Assign(old.fields, from_wire(body)))
         IN  IF errs # {}
             THEN Outcome(st, nid, Response(400, NoPayload, <<>>, errs))
             ELSE Outcome((st \ {old}) \cup {new}, nid,
                          Response(200, to_wire(new), <<>>, {}))

\* Variant: put updates partially, as patch does.
DetailPatientView_put_partial(st, nid, id, body) == update(st, nid, id, body, TRUE)

\* PUT /patients/{id}/
DetailPatientView_put(st, nid, id, body) == update(st, nid, id, body, FALSE)

\* PATCH /patients/{id}/
DetailPatientView_patch(st, nid, id, body) == update(st, nid, id, body, TRUE)

\* Variant: the row is kept (a soft delete) and 204 returned.
DetailPatientView_delete_soft(st, nid, id) ==
    IF id \notin Ids(st) THEN NotFound(st, nid)
    ELSE Outcome(st, nid, Response(204, NoPayload, <<>>, {}))

\* DELETE /patients/{id}/
DetailPatientView_delete(st, nid, id) ==
    IF id \notin Ids(st) THEN NotFound(st, nid)
    ELSE Outcome(st \ {GetRow(st, id)}, nid, Response(204, NoPayload, <<>>, {}))

\* A method the view has no handler for.
http_method_not_allowed(st, nid) ==
    Outcome(st, nid, Response(405, NoPayload, <<>>, {}))

\* dispatch: the handler of the request's method, on the view of its path.
Dispatch(st, nid, r) ==
    IF r.method \notin HandlerMethods(r.path) THEN http_method_not_allowed(st, nid)
    ELSE IF r.path = "collection"
         THEN IF r.method = "GET" THEN ListPatientsView_get(st, nid)
              ELSE ListPatientsView_post(st, nid, r.body)
         ELSE CASE r.method = "GET"    -> DetailPatientView_get(st, nid, r.id)
                [] r.method = "PUT"    -> DetailPatientView_put(st, nid, r.id, r.body)
                [] r.method = "PATCH"  -> DetailPatientView_patch(st, nid, r.id, r.body)
                [] r.method = "DELETE" -> DetailPatientView_delete(st, nid, r.id)

(***************************************************************************)
(* The requests tried                                                      *)
(***************************************************************************)
Full(v) == [f \in Fields |-> v]
Only(f, v) == [k \in {f} |-> v]
Without(p, m) == [k \in DOMAIN p \ m |-> p[k]]
With(p, k, x) == [j \in DOMAIN p \cup {k} |-> IF j = k THEN x ELSE p[j]]

\* A body with a field left out or blank is tried with one value: no handler
\* reads the values of a body it rejects.
Invalid ==
    {Without(Full("a"), m) : m \in (SUBSET ProbeFields) \ {{}}}
        \cup {With(Full("a"), f, "") : f \in PatchFields}

\* The bodies of POST and PUT requests.
Payloads ==
    {Full(v) : v \in Vals}
        \cup {With(Full(v), "id", c) : v \in Vals, c \in ClientIds}
        \cup Invalid

\* The bodies of PATCH requests.
PatchPayloads ==
    {Only(f, v) : f \in PatchFields, v \in Vals \cup {""}}
        \cup {With(Only(f, "a"), "id", c) : f \in PatchFields, c \in ClientIds}

ReqIds == 1..MaxCreates

Request(method, path, id, body) ==
    [method |-> method, path |-> path, id |-> id, body |-> body]

NoRequest == Request("NONE", "collection", 0, NoPayload)
NoResponse == Response(0, NoPayload, <<>>, {})

(***************************************************************************)
(* The workers of SpecConc and the requests of SpecDemo at rest            *)
(***************************************************************************)
Workers == {1, 2}

Idle == [pc |-> "idle", method |-> "NONE", id |-> 0, body |-> NoPayload,
         inst |-> Row(0, NoPayload), status |-> 0, data |-> NoPayload]

\* An optional value: None, or Some(v).
None == <<>>
Some(v) == <<v>>

NoDemoRequest == [op |-> "NONE"]
NoDemoResponse == [status |-> 0]

(***************************************************************************)
(* Spec: one request at a time                                             *)
(***************************************************************************)
Init ==
    /\ store = {}
    /\ nextId = 1
    /\ req = NoRequest
    /\ resp = NoResponse
    /\ before = [store |-> {}, nextId |-> 1]
    /\ created = {}
    /\ deleted = {}
    /\ submitted = NoPayload
    /\ proc = [w \in Workers |-> Idle]
    /\ demoReq = NoDemoRequest
    /\ demoResp = NoDemoResponse
    /\ demoServed = 0

\* The request r is served: the table, the sequence and the response are the
\* handler's, and the history variables record what happened.
Serve(r) ==
    \E out \in {Dispatch(store, nextId, r)} :
        LET upd  == r.path = "item" /\ r.method \in {"PUT", "PATCH", "DELETE"}
                       /\ out.resp.status \in {200, 204}
            kept == [i \in DOMAIN submitted \ (IF upd THEN {r.id} ELSE {})
                        |-> submitted[i]]
        IN  /\ req' = r
            /\ resp' = out.resp
            /\ store' = out.store
            /\ nextId' = out.nextId
            /\ before' = [store |-> store, nextId |-> nextId]
            /\ created' = IF out.resp.status = 201
                          THEN created \cup {out.resp.data["id"]} ELSE created
            /\ deleted' = IF out.resp.status = 204 THEN deleted \cup {r.id} ELSE deleted
            /\ submitted' = IF out.resp.status = 201
                            THEN (out.resp.data["id"] :> from_wire(r.body)) @@ kept
                            ELSE kept
            /\ UNCHANGED <<proc, demoVars>>

List ==
    /\ Serve(Request("GET", "collection", 0, NoPayload))

Create ==
    \E body \in Payloads :
        /\ Errors(body, FALSE) # {} \/ nextId <= MaxCreates
        /\ Serve(Request("POST", "collection", 0, body))

Retrieve ==
    \E id \in ReqIds :
        /\ Serve(Request("GET", "item", id, NoPayload))

Update ==
    \E id \in ReqIds, body \in Payloads :
        /\ Serve(Request("PUT", "item", id, body))

PartialUpdate ==
    \E id \in ReqIds, body \in PatchPayloads :
        /\ Serve(Request("PATCH", "item", id, body))

Destroy ==
    \E id \in ReqIds :
        /\ Serve(Request("DELETE", "item", id, NoPayload))

\* A request whose method the view of its path has no handler for.
NotAllowed ==
    \E path \in {"collection", "item"}, m \in Methods, id \in ReqIds :
        /\ m \notin HandlerMethods(path)
        /\ Serve(Request(m, path, IF path = "item" THEN id ELSE 0, NoPayload))

Next == List \/ Create \/ Retrieve \/ Update \/ PartialUpdate \/ Destroy \/ NotAllowed

Spec == Init /\ [][Next]_vars

(***************************************************************************)
(* Properties of Spec                                                      *)
(***************************************************************************)
IsReq(method, path) == req.method = method /\ req.path = path

\* A valid patient payload: every field present and not blank.
ValidPayload(body) ==
    /\ Fields \subseteq DOMAIN body
    /\ \A f \in Fields : body[f] # ""

MissingFields(body) == Fields \ DOMAIN body

StoreUnchanged == store = before.store /\ nextId = before.nextId

\* C1: a POST of a valid payload P responds 201 with a payload that carries an
\* id no row of the table had and every field of P; and a GET of an id
\* created with P, with no update or delete of it since, responds 200 with
\* the fields of P.
C1_CreateThenRetrieve ==
    /\ (IsReq("POST", "collection") /\ ValidPayload(req.body)) =>
           /\ resp.status = 201
           /\ "id" \in DOMAIN resp.data
           /\ resp.data["id"] \notin Ids(before.store)
           /\ \A f \in Fields : resp.data[f] = req.body[f]
    /\ (IsReq("GET", "item") /\ req.id \in DOMAIN submitted) =>
           /\ resp.status = 200
           /\ resp.data["id"] = req.id
           /\ \A f \in Fields : resp.data[f] = submitted[req.id][f]

\* C1 witness: the second patient created is retrieved, unchanged since its
\* creation, while the first one holds other values.
C1_Witness ==
    /\ IsReq("GET", "item") /\ req.id = 2 /\ req.id \in DOMAIN submitted
    /\ resp.status = 200
    /\ \E r \in store : r.id = 1 /\ r.fields["email"] # submitted[2]["email"]

\* C2: once a DELETE of an id responded 204, no row has that id, GET, PUT and
\* DELETE on it respond 404 and no list response carries it.
C2_DeleteIsPermanent ==
    \A id \in deleted :
        /\ id \notin Ids(store)
        /\ (req.path = "item" /\ req.id = id /\ req.method \in {"GET", "PUT", "DELETE"}
               /\ id \notin Ids(before.store)) => resp.status = 404
        /\ IsReq("GET", "collection") =>
               \A k \in 1..Len(resp.items) : resp.items[k]["id"] # id

\* C2 witness: a valid PUT on a deleted id, after a later create, gets 404.
C2_Witness ==
    /\ IsReq("PUT", "item") /\ req.id \in deleted /\ ValidPayload(req.body)
    /\ req.id \notin Ids(before.store)
    /\ nextId > req.id + 1
    /\ resp.status = 404

\* C3: a list response is 200 and carries one payload per row of the table,
\* which are the ids created and not since deleted: none twice, none left
\* out, none when nothing was created.
C3_ListIsTheStore ==
    IsReq("GET", "collection") =>
        /\ resp.status = 200
        /\ Len(resp.items) = Cardinality(created \ deleted)
        /\ \A i \in created \ deleted :
               \E k \in 1..Len(resp.items) :
                   /\ resp.items[k]["id"] = i
                   /\ \E r \in store : r.id = i /\ resp.items[k] = to_wire(r)
        /\ \A k \in 1..Len(resp.items) : resp.items[k]["id"] \in created \ deleted
        /\ (created = {} => resp.items = <<>>)

\* C3 witness: a list after two creates and a delete carries one payload.
C3_Witness ==
    /\ IsReq("GET", "collection")
    /\ Cardinality(created) = 2 /\ Cardinality(deleted) = 1
    /\ Len(resp.items) = 1

\* C4: a PUT on an id no row has responds 404, whatever the body, and leaves
\* the table as it was.
C4_UpdateUnknownIsNotFound ==
    (IsReq("PUT", "item") /\ req.id \notin Ids(before.store)) =>
        /\ resp.status = 404
        /\ StoreUnchanged

\* C4 witness: a PUT with a body missing fields, on an id no row has while
\* another row exists, gets 404.
C4_Witness ==
    /\ IsReq("PUT", "item") /\ req.id \notin Ids(before.store)
    /\ MissingFields(req.body) # {}
    /\ store # {}
    /\ resp.status = 404

\* C5: a POST whose body misses a required field responds 400, its errors
\* name every missing field, and the table and its id sequence are as before.
C5_CreateMissingField ==
    (IsReq("POST", "collection") /\ MissingFields(req.body) # {}) =>
        /\ resp.status = 400
        /\ MissingFields(req.body) \subseteq resp.errors
        /\ StoreUnchanged
        /\ created \subseteq Ids(before.store) \cup deleted

\* C5 witness: a POST missing two fields, on a table that holds a row.
C5_Witness ==
    /\ IsReq("POST", "collection")
    /\ Cardinality(MissingFields(req.body)) = 2
    /\ resp.status = 400
    /\ store # {}

\* C6 (as claimed): a request whose method is not among the view's
\* allowed_methods is not handled (405) and changes no row.
C6_OnlyDeclaredMethods ==
    (req.method \in Methods /\ req.method \notin allowed_methods(req.path)
        /\ (req.path = "item" => req.id \in Ids(before.store))) =>
        /\ resp.status = 405
        /\ StoreUnchanged

\* C7: a valid PUT on an existing id sets every field of the row to the
\* body's value and responds with the updated payload; a PUT missing a
\* required field responds 400 and leaves the table as it was.
C7_PutReplaces ==
    /\ (IsReq("PUT", "item") /\ req.id \in Ids(before.store) /\ ValidPayload(req.body)) =>
           /\ resp.status = 200
           /\ \E r \in store :
                  /\ r.id = req.id
                  /\ \A f \in Fields : r.fields[f] = req.body[f]
                  /\ resp.data = to_wire(r)
    /\ (IsReq("PUT", "item") /\ req.id \in Ids(before.store)
           /\ MissingFields(req.body) # {}) =>
           /\ resp.status = 400
           /\ StoreUnchanged

\* C7 witness: a valid PUT on a row none of whose fields had the body's value.
C7_Witness ==
    /\ IsReq("PUT", "item") /\ ValidPayload(req.body)
    /\ resp.status = 200
    /\ \E r \in before.store :
           r.id = req.id /\ \A f \in Fields : r.fields[f] # req.body[f]

\* C8: no two rows share an id; the id a create returns is the table's next
\* id, whatever id the body carries, and no row had it; an update leaves the
\* ids of the table, and every other row, as they were, whatever id the body
\* carries.
C8_IdsUniqueAndStoreAssigned ==
    /\ \A r1, r2 \in store : r1.id = r2.id => r1 = r2
    /\ resp.status = 201 =>
           /\ resp.data["id"] = before.nextId
           /\ resp.data["id"] \notin Ids(before.store)
           /\ Ids(store) = Ids(before.store) \cup {resp.data["id"]}
    /\ (req.path = "item" /\ req.method \in {"PUT", "PATCH"} /\ resp.status = 200) =>
           /\ resp.data["id"] = req.id
           /\ Ids(store) = Ids(before.store)
           /\ \A r \in before.store : r.id # req.id => r \in store

\* C8 witness: a PUT whose body carries another id than the row's succeeds on
\* a table of two rows.
C8_Witness ==
    /\ IsReq("PUT", "item") /\ resp.status = 200
    /\ "id" \in DOMAIN req.body /\ req.body["id"] # req.id
    /\ Cardinality(store) = 2

(***************************************************************************)
(* SpecConc: two requests on one patient, each handler taking one step at  *)
(* a time; a step is one database statement, or the validation of a body.  *)
(* No transaction spans the statements of a handler.                       *)
(***************************************************************************)
ConcStores == {{}} \cup {{Row(1, Full(v))} : v \in Vals}

ConcBodies == {Full(v) : v \in Vals} \cup {Without(Full("a"), {"email"})}

InitConc ==
    /\ store \in ConcStores
    /\ nextId = Cardinality(store) + 1
    /\ before = [store |-> store, nextId |-> nextId]
    /\ req = NoRequest
    /\ resp = NoResponse
    /\ created = Ids(store)
    /\ deleted = {}
    /\ submitted = NoPayload
    /\ proc = [w \in Workers |-> Idle]
    /\ demoReq = NoDemoRequest
    /\ demoResp = NoDemoResponse
    /\ demoServed = 0

concFrame == <<nextId, req, resp, before, created, deleted, submitted, demoVars>>

Finish(w, status, data) ==
    proc' = [proc EXCEPT ![w].pc = "done", ![w].status = status, ![w].data = data]

\* A PUT or DELETE on /patients/1/ reaches worker w.
Receive(w) ==
    /\ proc[w].pc = "idle"
    /\ \E m \in {"PUT", "DELETE"}, body \in ConcBodies :
           /\ m = "DELETE" => body = Full("a")
           /\ proc' = [proc EXCEPT ![w].pc = "lookup", ![w].method = m, ![w].id = 1,
                          ![w].body = IF m = "PUT" THEN body ELSE NoPayload]
    /\ UNCHANGED <<store, concFrame>>

\* get_object: the row is read, or the request ends with 404.
Lookup(w) ==
    /\ proc[w].pc = "lookup"
    /\ IF proc[w].id \notin Ids(store)
       THEN Finish(w, 404, NoPayload)
       ELSE proc' = [proc EXCEPT ![w].inst = GetRow(store, proc[w].id),
                        ![w].pc = IF proc[w].method = "PUT" THEN "validate"
                                  ELSE "destroy"]
    /\ UNCHANGED <<store, concFrame>>

\* serializer.is_valid(raise_exception=True) of a PUT.
Validate(w) ==
    /\ proc[w].pc = "validate"
    /\ IF Errors(proc[w].body, FALSE) # {}
       THEN Finish(w, 400, NoPayload)
       ELSE proc' = [proc EXCEPT ![w].pc = "save"]
    /\ UNCHANGED <<store, concFrame>>

\* serializer.save() of a PUT: the validated fields are set on the instance
\* read by Lookup and the instance saved. Model.save updates the row of the
\* instance's id and, when no row has it, inserts the instance.
Save(w) ==
    /\ proc[w].pc = "save"
    /\ \E new \in {Row(proc[w].inst.id,
                      Assign(proc[w].inst.fields, from_wire(proc[w].body)))} :
           /\ store' = {r \in store : r.id # new.id} \cup {new}
           /\ Finish(w, 200, to_wire(new))
    /\ UNCHANGED concFrame

\* instance.delete() of a DELETE: the rows of the instance's id are deleted,
\* none when none is left, and 204 returned.
DestroyRow(w) ==
    /\ proc[w].pc = "destroy"
    /\ store' = {r \in store : r.id # proc[w].inst.id}
    /\ Finish(w, 204, NoPayload)
    /\ UNCHANGED concFrame

NextConc ==
    \E w \in Workers :
        Receive(w) \/ Lookup(w) \/ Validate(w) \/ Save(w) \/ DestroyRow(w)

SpecConc == InitConc /\ [][NextConc]_vars

\* The request of worker w, as Spec serves it.
RequestOf(w) == Request(proc[w].method, "item", proc[w].id, proc[w].body)

\* Serving first a's request and then b's, each whole, from the table the
\* run began with, ends with the table and the two responses of this state.
SerialOrder(a, b) ==
    LET o1 == Dispatch(before.store, before.nextId, RequestOf(a))
        o2 == Dispatch(o1.store, o1.nextId, RequestOf(b))
    IN  /\ store = o2.store
        /\ proc[a].status = o1.resp.status /\ proc[a].data = o1.resp.data
        /\ proc[b].status = o2.resp.status /\ proc[b].data = o2.resp.data

\* C10 (as claimed): when a PUT and a concurrent PUT or DELETE on the same id
\* have both responded, the table and the responses are those of the two
\* requests served one after the other, in one order or the other.
C10_Serializable ==
    ((\A w \in Workers : proc[w].pc = "done")
        /\ (\E w \in Workers : proc[w].method = "PUT")) =>
        SerialOrder(1, 2) \/ SerialOrder(2, 1)

(***************************************************************************)
(* SpecDemo: the demo service of main.py                                   *)
(***************************************************************************)
ItemFields == {"name", "description", "price", "tax", "is_offer"}
ItemRequired == {"name", "price"}

\* Item(**body): the declared fields of the body, None for one not given.
Item(body) == [f \in ItemFields |-> IF f \in DOMAIN body THEN Some(body[f]) ELSE None]

\* Variant: a q not given keeps the q of the request served before.
read_item_sticky(item_id, q) ==
    [status |-> 200,
     body |-> [item_id |-> item_id,
               q |-> IF q = None /\ demoReq.op = "read_item" THEN demoReq.q ELSE q]]

\* GET /
read_root == [status |-> 200, body |-> [message |-> "Hello World"]]

\* GET /items/{item_id}?q=
read_item(item_id, q) == [status |-> 200, body |-> [item_id |-> item_id, q |-> q]]

\* POST /items/: a body without a required field is rejected before the
\* function is called; else the function returns the item.
create_item(body) ==
    IF ItemRequired \ DOMAIN body # {}
    THEN [status |-> 422, body |-> ItemRequired \ DOMAIN body]
    ELSE [status |-> 200, body |-> Item(body)]

ItemIds == 0..2
Queries == {None, Some("x"), Some("y")}

ItemValues(f) ==
    CASE f = "name"        -> {"n1", "n2"}
      [] f = "description" -> {"d1"}
      [] f = "price"       -> {1, 2}
      [] f = "tax"         -> {1}
      [] f = "is_offer"    -> {TRUE, FALSE}

ItemDomains == {d \in SUBSET ItemFields : Cardinality(ItemRequired \ d) <= 1}

RECURSIVE Bodies(_)
\* The bodies over the fields d, each with a value of its type.
Bodies(d) ==
    IF d = {} THEN {NoPayload}
    ELSE LET f == CHOOSE x \in d : TRUE
         IN  {(f :> v) @@ b : v \in ItemValues(f), b \in Bodies(d \ {f})}

ItemBodies == UNION {Bodies(d) : d \in ItemDomains}

DemoServe(r, out) ==
    /\ demoReq' = r
    /\ demoResp' = out
    /\ demoServed' = IF demoServed < MaxServed THEN demoServed + 1 ELSE demoServed
    /\ UNCHANGED <<patientVars, proc>>

ReadRoot ==
    /\ DemoServe([op |-> "read_root"], read_root)

ReadItem ==
    \E i \in ItemIds, q \in Queries :
        /\ DemoServe([op |-> "read_item", item_id |-> i, q |-> q], read_item(i, q))

CreateItem ==
    \E b \in ItemBodies :
        /\ DemoServe([op |-> "create_item", body |-> b], create_item(b))

NextDemo == ReadRoot \/ ReadItem \/ CreateItem

SpecDemo == Init /\ [][NextDemo]_vars

\* C9: whatever was served before, GET / returns the fixed message, GET
\* /items/{id}?q= the id and the q given (None when not given), and POST
\* /items/ of an item the five fields of the item (None for one not given).
C9_DemoStateless ==
    /\ demoReq.op = "read_root" =>
           demoResp = [status |-> 200, body |-> [message |-> "Hello World"]]
    /\ demoReq.op = "read_item" =>
           /\ demoResp.status = 200
           /\ demoResp.body.item_id = demoReq.item_id
           /\ demoResp.body.q = demoReq.q
    /\ (demoReq.op = "create_item" /\ ItemRequired \subseteq DOMAIN demoReq.body) =>
           /\ demoResp.status = 200
           /\ DOMAIN demoResp.body = ItemFields
           /\ \A f \in ItemFields :
                  demoResp.body[f] = IF f \in DOMAIN demoReq.body
                                     THEN Some(demoReq.body[f]) ELSE None

\* C9 witness: after other requests, among them one with a q, a GET of an
\* item without q returns no q.
C9_Witness ==
    /\ demoServed = MaxServed
    /\ demoReq.op = "read_item" /\ demoReq.q = None
    /\ demoResp.body.q = None /\ demoResp.body.item_id = 2

====
